---- MODULE Spec2Model ----
(***************************************************************************)
(* Datasets-Convertor (src/app.py): sanitize_value and dataset_converter.  *)
(*                                                                         *)
(* Text is a sequence of character codes, a bytes object a sequence of     *)
(* byte values.  A Python object is a record tagged by its type in field   *)
(* t: "str", "bytes", "int", "bool", "none", "list", "dict", "ndarray",    *)
(* "int64" (numpy), and "record" for a row as a mapping column -> value.   *)
(***************************************************************************)
EXTENDS Naturals, Sequences, FiniteSets, TLC

VARIABLES
    fs,        \* the working directory: output file name -> content
    prev,      \* the working directory as the last call found it
    nreq,      \* number of requests handled so far
    req,       \* the arguments (and environment answers) of the last call
    res,       \* how the last call of dataset_converter ended
    val,       \* sanitizer harness: the value handed to sanitize_value
    out1,      \* sanitize_value(val)
    out2,      \* sanitize_value(sanitize_value(val))
    phase      \* sanitizer harness: "in", "once", "twice"

vars == <<fs, prev, nreq, req, res, val, out1, out2, phase>>

(***************************************************************************)
(* Bounds                                                                  *)
(***************************************************************************)
MaxLen == 3        \* longest text / bytes handed to the sanitizer harness
MaxRequests == 2   \* requests per behaviour

(***************************************************************************)
(* Python objects                                                          *)
(***************************************************************************)
Str(s) == [t |-> "str", s |-> s]
Bytes(b) == [t |-> "bytes", b |-> b]
Int(n) == [t |-> "int", n |-> n]
Bool(v) == [t |-> "bool", v |-> v]
None == [t |-> "none"]
List(items) == [t |-> "list", items |-> items]
Dict(k, v) == [t |-> "dict", k |-> k, v |-> v]   \* one key/value pair
NdArray(items) == [t |-> "ndarray", items |-> items]

REPLACEMENT == 65533   \* U+FFFD, what errors="replace" puts for bad bytes

(***************************************************************************)
(* bytes.decode("utf-8", errors="replace")                                 *)
(***************************************************************************)
IsCont(b) == b >= 128 /\ b <= 191

\* Lowest and highest legal second byte after lead byte b0 (3/4-byte forms).
SecondLo(b0) == IF b0 = 224 THEN 160 ELSE IF b0 = 240 THEN 144 ELSE 128
SecondHi(b0) == IF b0 = 237 THEN 159 ELSE IF b0 = 244 THEN 143 ELSE 191

\* One decoding step at index i: the number of bytes consumed and the
\* character produced (an invalid or truncated sequence gives one U+FFFD
\* for its maximal well-formed prefix).
Utf8Step(b, i) ==
    LET b0 == b[i]
        has(k) == i + k <= Len(b)
        secondOk == has(1) /\ b[i+1] >= SecondLo(b0) /\ b[i+1] <= SecondHi(b0)
    IN  IF b0 < 128 THEN [n |-> 1, c |-> b0]
        ELSE IF b0 >= 194 /\ b0 <= 223 THEN
            IF has(1) /\ IsCont(b[i+1])
            THEN [n |-> 2, c |-> (b0 - 192) * 64 + (b[i+1] - 128)]
            ELSE [n |-> 1, c |-> REPLACEMENT]
        ELSE IF b0 >= 224 /\ b0 <= 239 THEN
            IF ~secondOk THEN [n |-> 1, c |-> REPLACEMENT]
            ELSE IF ~(has(2) /\ IsCont(b[i+2])) THEN [n |-> 2, c |-> REPLACEMENT]
            ELSE [n |-> 3, c |-> (b0 - 224) * 4096 + (b[i+1] - 128) * 64
                                  + (b[i+2] - 128)]
        ELSE IF b0 >= 240 /\ b0 <= 244 THEN
            IF ~secondOk THEN [n |-> 1, c |-> REPLACEMENT]
            ELSE IF ~(has(2) /\ IsCont(b[i+2])) THEN [n |-> 2, c |-> REPLACEMENT]
            ELSE IF ~(has(3) /\ IsCont(b[i+3])) THEN [n |-> 3, c |-> REPLACEMENT]
            ELSE [n |-> 4, c |-> (b0 - 240) * 262144 + (b[i+1] - 128) * 4096
                                  + (b[i+2] - 128) * 64 + (b[i+3] - 128)]
        ELSE [n |-> 1, c |-> REPLACEMENT]

RECURSIVE DecodeFrom(_, _)
DecodeFrom(b, i) ==
    IF i > Len(b) THEN <<>>
    ELSE LET st == Utf8Step(b, i) IN <<st.c>> \o DecodeFrom(b, i + st.n)

decode_utf8_replace(b) == DecodeFrom(b, 1)

(***************************************************************************)
(* re.sub(r'[\x00-\x08\x0B\x0C\x0E-\x1F]', '', s)                          *)
(***************************************************************************)
\* The character class of the pattern.
InCtlClassNoVT(c) == c <= 8 \/ c = 12 \/ (c >= 14 /\ c <= 31)
InCtlClass(c) == c <= 8 \/ c = 11 \/ c = 12 \/ (c >= 14 /\ c <= 31)

RECURSIVE SubAll(_)
SubAll(s) ==
    IF s = <<>> THEN <<>>
    ELSE IF InCtlClass(Head(s)) THEN SubAll(Tail(s))
    ELSE <<Head(s)>> \o SubAll(Tail(s))

\* re.sub with count=1: only the first match is removed.
RECURSIVE SubFirst(_)
SubFirst(s) ==
    IF s = <<>> THEN <<>>
    ELSE IF InCtlClass(Head(s)) THEN Tail(s)
    ELSE <<Head(s)>> \o SubFirst(Tail(s))

re_sub_ctl(s) == SubAll(s)

(***************************************************************************)
(* str(val) / repr(val) of the built-in types                              *)
(***************************************************************************)
HexDigit(d) == IF d < 10 THEN 48 + d ELSE 87 + d          \* '0'..'9', 'a'..'f'
HexEscape(c) == <<92, 120, HexDigit(c \div 16), HexDigit(c % 16)>>   \* \xNN
UEscape(c) == <<92, 117, HexDigit(c \div 4096), HexDigit((c \div 256) % 16),
                HexDigit((c \div 16) % 16), HexDigit(c % 16)>>       \* \uNNNN

\* str.isprintable() of one character, for the Basic Multilingual Plane code
\* points the alphabets below use: ASCII graphic characters and space, and
\* the Latin-1 / U+FFFD characters outside the C1 controls, NBSP and SHY.
IsPrintable(c) == (c >= 32 /\ c < 127) \/ (c > 160 /\ c # 173)

Contains(s, c) == \E i \in 1..Len(s) : s[i] = c

\* repr picks double quotes when the text holds ' and no ".
QuoteOf(s) == IF Contains(s, 39) /\ ~Contains(s, 34) THEN 34 ELSE 39

StrEscape(c, q) ==
    IF c = 92 \/ c = q THEN <<92, c>>
    ELSE IF c = 9 THEN <<92, 116>>
    ELSE IF c = 10 THEN <<92, 110>>
    ELSE IF c = 13 THEN <<92, 114>>
    ELSE IF IsPrintable(c) THEN <<c>>
    ELSE IF c < 256 THEN HexEscape(c)
    ELSE UEscape(c)

BytesEscape(c, q) ==
    IF c = 92 \/ c = q THEN <<92, c>>
    ELSE IF c = 9 THEN <<92, 116>>
    ELSE IF c = 10 THEN <<92, 110>>
    ELSE IF c = 13 THEN <<92, 114>>
    ELSE IF c >= 32 /\ c < 127 THEN <<c>>
    ELSE HexEscape(c)

RECURSIVE EscapeAll(_, _, _)
EscapeAll(s, q, isBytes) ==
    IF s = <<>> THEN <<>>
    ELSE (IF isBytes THEN BytesEscape(Head(s), q) ELSE StrEscape(Head(s), q))
         \o EscapeAll(Tail(s), q, isBytes)

RECURSIVE Digits(_)
Digits(n) == IF n < 10 THEN <<48 + n>> ELSE Digits(n \div 10) \o <<48 + (n % 10)>>

RECURSIVE Repr(_)
RECURSIVE JoinRepr(_)
JoinRepr(items) ==
    IF items = <<>> THEN <<>>
    ELSE IF Len(items) = 1 THEN Repr(items[1])
    ELSE Repr(Head(items)) \o <<44, 32>> \o JoinRepr(Tail(items))

Repr(v) ==
    CASE v.t = "str" -> <<QuoteOf(v.s)>> \o EscapeAll(v.s, QuoteOf(v.s), FALSE)
                        \o <<QuoteOf(v.s)>>
      [] v.t = "bytes" -> <<98, QuoteOf(v.b)>> \o EscapeAll(v.b, QuoteOf(v.b), TRUE)
                          \o <<QuoteOf(v.b)>>
      [] v.t = "int" -> Digits(v.n)
      [] v.t = "bool" -> IF v.v THEN <<84, 114, 117, 101>>          \* True
                         ELSE <<70, 97, 108, 115, 101>>              \* False
      [] v.t = "none" -> <<78, 111, 110, 101>>                       \* None
      [] v.t = "list" -> <<91>> \o JoinRepr(v.items) \o <<93>>
      [] v.t = "dict" -> <<123>> \o Repr(v.k) \o <<58, 32>> \o Repr(v.v) \o <<125>>

\* str(val): the text itself for a str, repr(val) for the other built-ins.
PyStr(v) == IF v.t = "str" THEN v.s ELSE Repr(v)

(***************************************************************************)
(* sanitize_value                                                          *)
(***************************************************************************)
sanitize_value(v) ==
    IF v.t = "bytes" THEN Str(re_sub_ctl(decode_utf8_replace(v.b)))
    ELSE IF v.t = "str" THEN Str(re_sub_ctl(v.s))
    ELSE IF v.t \in {"dict", "list"} THEN Str(re_sub_ctl(PyStr(v)))
    ELSE v

(***************************************************************************)
(* Files, tables and the inputs of a request                               *)
(***************************************************************************)
\* A table (DataFrame): column names and rows of cells.
Table(cols, rows) == [cols |-> cols, rows |-> rows]

\* numpy.int64, what an all-integer CSV column holds.
NpInt(n) == [t |-> "int64", n |-> n]

\* File contents by what the parsers make of them: well-formed CSV text of a
\* table, a well-formed Parquet file of a table, or bytes neither parser
\* accepts.
CsvBytes(tb) == [fmt |-> "csv", table |-> tb]
ParquetBytes(tb) == [fmt |-> "parquet", table |-> tb]
BadBytes == [fmt |-> "bad"]
Absent == [fmt |-> "absent"]

CsvTables ==
    { Table(<<"file_name", "label">>,
            << <<Str(<<97>>), Str(<<99>>)>>, <<Str(<<98>>), Str(<<100>>)>> >>),
      Table(<<"label">>, << <<Str(<<99>>)>> >>),
      Table(<<"n">>, << <<NpInt(1)>>, <<NpInt(2)>> >>) }

ParquetTables ==
    { Table(<<"t", "b">>,
            << <<Str(<<65, 11>>), Bytes(<<195, 169>>)>>,
               <<Str(<<66>>), Bytes(<<255, 1>>)>> >>),
      Table(<<"a">>, << <<None>>, <<NdArray(<<Int(1)>>)>> >>),
      Table(<<"s">>, << <<Dict(Str(<<107>>), Bytes(<<7, 65>>))>> >>) }

Contents ==
    {CsvBytes(tb) : tb \in CsvTables} \cup {ParquetBytes(tb) : tb \in ParquetTables}
    \cup {BadBytes}

\* File names: "A.CSV", "b.parquet", "csv", "a.csv.txt".
FileNames ==
    { <<65, 46, 67, 83, 86>>,
      <<98, 46, 112, 97, 114, 113, 117, 101, 116>>,
      <<99, 115, 118>>,
      <<97, 46, 99, 115, 118, 46, 116, 120, 116>> }

\* input_file: None, a file-like object (read() and name), or a path string.
NoFile == [kind |-> "none"]
FileLike(name, bytes) ==
    [kind |-> "obj", name |-> name, bytes |-> bytes, readable |-> TRUE]
PathStr(name, bytes, readable) ==
    [kind |-> "path", name |-> name, bytes |-> bytes, readable |-> readable]

\* The uploads tried under every name, and under the two names with an
\* ordinary extension ("A.CSV", "b.parquet") every content.
PlainNames == { <<65, 46, 67, 83, 86>>, <<98, 46, 112, 97, 114, 113, 117, 101, 116>> }
PlainContents ==
    { CsvBytes(Table(<<"label">>, << <<Str(<<99>>)>> >>)),
      ParquetBytes(Table(<<"s">>, << <<Dict(Str(<<107>>), Bytes(<<7, 65>>))>> >>)),
      BadBytes }

InputFiles ==
    {NoFile}
    \cup {FileLike(n, c) : n \in PlainNames, c \in Contents}
    \cup {FileLike(n, c) : n \in FileNames, c \in PlainContents}
    \cup {PathStr(n, c, TRUE) : n \in PlainNames, c \in PlainContents}
    \cup {PathStr(n, Absent, FALSE) : n \in PlainNames}

ConversionLabels ==
    {"CSV to Parquet", "Parquet to CSV", "CSV to JSONL", "Parquet to JSONL",
     "Parquet to XLS"}
ConversionTypes == ConversionLabels \cup {"XLS to CSV"}

Urls == {"", "http://host/t.parquet"}

\* What the network answers to requests.get(parquet_url).
NoAnswer == [outcome |-> "unasked"]
NetAnswers ==
    {[outcome |-> "refused"], [outcome |-> "status", code |-> 404, content |-> BadBytes]}
    \cup {[outcome |-> "status", code |-> 200, content |-> c] : c \in Contents}

OutputNames ==
    {"output.parquet", "output.csv", "metadata.jsonl", "output.jsonl", "output.xlsx"}

\* "from_url.parquet" and "N/A"
FromUrlName == <<102, 114, 111, 109, 95, 117, 114, 108, 46,
                 112, 97, 114, 113, 117, 101, 116>>
NotAvailable == <<78, 47, 65>>

CSV == <<99, 115, 118>>
PARQUET == <<112, 97, 114, 113, 117, 101, 116>>

(***************************************************************************)
(* Input resolver, lines 57-65                                             *)
(***************************************************************************)
LowerChar(c) == IF c >= 65 /\ c <= 90 THEN c + 32 ELSE c
Lower(s) == [i \in 1..Len(s) |-> LowerChar(s[i])]

\* s.split('.')[-1]: the text after the last '.', the whole text without one.
RECURSIVE LastDotField(_)
LastDotField(s) ==
    IF ~Contains(s, 46) THEN s
    ELSE LastDotField(Tail(s))

FileExtension(name) == LastDotField(Lower(name))

Resolve(input_file) ==
    IF input_file.kind = "none"
    THEN [ok |-> TRUE, file_bytes |-> Absent, file_name |-> None,
          file_extension |-> None]
    ELSE IF input_file.kind = "path" /\ ~input_file.readable
    THEN [ok |-> FALSE, file_bytes |-> Absent, file_name |-> Str(input_file.name),
          file_extension |-> None]
    ELSE [ok |-> TRUE, file_bytes |-> input_file.bytes,
          file_name |-> Str(input_file.name),
          file_extension |-> Str(FileExtension(input_file.name))]

(***************************************************************************)
(* Library calls                                                           *)
(***************************************************************************)
PreviewRows == 10

Min(a, b) == IF a < b THEN a ELSE b

\* pd.read_csv / pd.read_parquet on a buffer: the table, or a parse error.
\* Contents are told apart by what the parsers make of them, so the default
\* and the latin1 decoding of read_csv accept the same ones.
read_csv(bytes) ==
    IF bytes.fmt = "csv" THEN [ok |-> TRUE, df |-> bytes.table]
    ELSE [ok |-> FALSE, df |-> Table(<<>>, <<>>)]

read_parquet(bytes) ==
    IF bytes.fmt = "parquet" THEN [ok |-> TRUE, df |-> bytes.table]
    ELSE [ok |-> FALSE, df |-> Table(<<>>, <<>>)]

\* df.head(10).to_string(index=False), as the rows it renders.
Preview(df) == Table(df.cols, SubSeq(df.rows, 1, Min(PreviewRows, Len(df.rows))))

\* str() of a cell as df.to_csv writes it: None becomes the empty field, an
\* ndarray prints its items between brackets, separated by blanks.
RECURSIVE JoinBlank(_)
JoinBlank(items) ==
    IF items = <<>> THEN <<>>
    ELSE IF Len(items) = 1 THEN Repr(items[1])
    ELSE Repr(Head(items)) \o <<32>> \o JoinBlank(Tail(items))

CsvField(cell) ==
    IF cell.t = "none" THEN <<>>
    ELSE IF cell.t = "ndarray" THEN <<91>> \o JoinBlank(cell.items) \o <<93>>
    ELSE IF cell.t = "int64" THEN Digits(cell.n)
    ELSE PyStr(cell)

to_csv(df) ==
    [fmt |-> "csv",
     table |-> Table(df.cols,
                     [i \in 1..Len(df.rows) |->
                        [j \in 1..Len(df.rows[i]) |-> Str(CsvField(df.rows[i][j]))]])]

to_parquet(df) == [fmt |-> "parquet", table |-> df]

\* Whether json.dumps accepts the value (anything else is a TypeError).
RECURSIVE Serializable(_)
Serializable(v) ==
    CASE v.t \in {"str", "int", "bool", "none"} -> TRUE
      [] v.t = "list" -> \A i \in 1..Len(v.items) : Serializable(v.items[i])
      [] v.t = "dict" -> v.k.t = "str" /\ Serializable(v.v)
      [] v.t = "record" -> \A i \in 1..Len(v.cells) : Serializable(v.cells[i])
      [] OTHER -> FALSE

\* json.dumps(v, ensure_ascii=...): the JSON text, kept as the value it encodes.
json_dumps(v, ensure_ascii) == [t |-> "str", json |-> v, ensure_ascii |-> ensure_ascii]

\* A row as a mapping column -> value.
Record(cols, cells) == [t |-> "record", cols |-> cols, cells |-> cells]

\* Worksheet.append of a write-only workbook: the cell types openpyxl converts.
ExcelWritable(cell) == cell.t \in {"str", "int", "int64", "bool", "none"}

(***************************************************************************)
(* dataset_converter, lines 39-172                                         *)
(***************************************************************************)
\* The texts of the ValueErrors, without their trailing emoji.
InvalidInputMessage(conversion_type) ==
    CASE conversion_type = "CSV to Parquet" ->
            "For CSV to Parquet conversion, please upload a CSV file."
      [] conversion_type = "Parquet to CSV" ->
            "For Parquet to CSV conversion, please upload a Parquet file."
      [] conversion_type = "CSV to JSONL" ->
            "For CSV to JSONL conversion, please upload a CSV file."
      [] conversion_type = "Parquet to JSONL" ->
            "For Parquet to JSONL conversion, please upload a file or provide a URL."
      [] conversion_type = "Parquet to XLS" ->
            "For Parquet to XLS conversion, please upload a file or provide a URL."
      [] OTHER -> "Invalid conversion type selected."

\* The branch of the if/elif chain that is entered.
DispatchDefaultXls(conversion_type) ==
    IF conversion_type \in ConversionLabels THEN conversion_type ELSE "Parquet to XLS"
Dispatch(conversion_type) ==
    IF conversion_type \in ConversionLabels THEN conversion_type ELSE "else"

\* The extension the three upload-only branches compare file_extension with.
RequiredExtensionSlip(branch) ==
    IF branch = "CSV to Parquet" THEN CSV ELSE PARQUET
RequiredExtension(branch) ==
    IF branch = "Parquet to CSV" THEN PARQUET ELSE CSV

OutputFileShared(branch) ==
    CASE branch = "CSV to Parquet" -> "output.parquet"
      [] branch = "Parquet to CSV" -> "output.csv"
      [] branch = "CSV to JSONL" -> "output.jsonl"
      [] branch = "Parquet to JSONL" -> "output.jsonl"
      [] branch = "Parquet to XLS" -> "output.xlsx"
OutputFile(branch) ==
    CASE branch = "CSV to Parquet" -> "output.parquet"
      [] branch = "Parquet to CSV" -> "output.csv"
      [] branch = "CSV to JSONL" -> "metadata.jsonl"
      [] branch = "Parquet to JSONL" -> "output.jsonl"
      [] branch = "Parquet to XLS" -> "output.xlsx"

ConvertedFormat(branch) ==
    CASE branch = "CSV to Parquet" -> "Parquet"
      [] branch = "Parquet to CSV" -> "CSV"
      [] branch \in {"CSV to JSONL", "Parquet to JSONL"} -> "JSONL"
      [] branch = "Parquet to XLS" -> "XLS"

\* Where the two Parquet-source-optional branches take the table from.
ChooseSourceUrlFirst(input_file, parquet_url) ==
    IF parquet_url # "" THEN "url"
    ELSE IF input_file.kind # "none" THEN "file"
    ELSE "none"
ChooseSource(input_file, parquet_url) ==
    IF input_file.kind # "none" THEN "file"
    ELSE IF parquet_url # "" THEN "url"
    ELSE "none"

\* file_name after a fetch (lines 117, 148).
NameAfterFetchKept(file_name) == file_name
NameAfterFetch(file_name) == Str(FromUrlName)

\* recursive_sanitize, lines 122-130.
RECURSIVE recursive_sanitize(_)
recursive_sanitize(v) ==
    CASE v.t = "bytes" -> Str(decode_utf8_replace(v.b))
      [] v.t = "dict" -> Dict(v.k, recursive_sanitize(v.v))
      [] v.t = "record" ->
            Record(v.cols, [i \in 1..Len(v.cells) |-> recursive_sanitize(v.cells[i])])
      [] v.t = "list" -> List([i \in 1..Len(v.items) |-> recursive_sanitize(v.items[i])])
      [] OTHER -> v

\* df.to_dict(orient="records")
to_records(df) == [i \in 1..Len(df.rows) |-> Record(df.cols, df.rows[i])]

\* The value of column 'file_name' of a row, None when there is none.
FileNameVal(cols, cells) ==
    IF \E j \in 1..Len(cols) : cols[j] = "file_name"
    THEN cells[CHOOSE j \in 1..Len(cols) : cols[j] = "file_name"]
    ELSE None

\* Lines 93-102: the rows of metadata.jsonl, built before the file is opened.
RowData(cols, cells) ==
    [t |-> "record", cols |-> <<"file_name", "ground_truth">>,
     cells |-> <<FileNameVal(cols, cells), json_dumps(Record(cols, cells), TRUE)>>]

\* The number of leading items json.dumps accepts.
RECURSIVE GoodPrefix(_)
GoodPrefix(items) ==
    IF items = <<>> \/ ~Serializable(Head(items)) THEN 0
    ELSE 1 + GoodPrefix(Tail(items))

\* with open(output_file, "w") ...: for item in items: f.write(json.dumps(item)).
\* The file is truncated on open and holds the lines written before a failure.
WriteLines(items, ensure_ascii) ==
    LET n == GoodPrefix(items)
    IN  [ok |-> n = Len(items),
         file |-> [fmt |-> "jsonl",
                   lines |-> [i \in 1..n |-> json_dumps(items[i], ensure_ascii)]]]

\* How a call ends: status "ok" (a return) or "error" (an exception), with
\* what the call did on the way: the branch entered, the HTTP GETs issued,
\* the source the table was parsed from and whether a parser ran.
Outcome(status, exc, msg, r, branch, gets, source, parsed, df, file_name) ==
    [status |-> status, exc |-> exc, msg |-> msg,
     file_name |-> file_name, file_extension |-> r.file_extension,
     branch |-> branch, gets |-> gets, source |-> source, parsed |-> parsed,
     df |-> df,
     output_file |-> IF status = "ok" THEN OutputFile(branch) ELSE "",
     converted_format |-> IF status = "ok" THEN ConvertedFormat(branch) ELSE "",
     info_name |-> IF status # "ok" THEN <<>>
                   ELSE IF file_name # None THEN file_name.s ELSE NotAvailable,
     preview |-> IF status = "ok" THEN Preview(df) ELSE Table(<<>>, <<>>)]

NoDf == Table(<<>>, <<>>)

\* The three upload-only branches, lines 68-107.
UploadBranch(fsv, input_file, r, branch) ==
    LET p == IF branch = "Parquet to CSV" THEN read_parquet(r.file_bytes)
             ELSE read_csv(r.file_bytes)
        df == p.df
        fail(exc, msg, parsed, table, fsOut) ==
            [fs |-> fsOut,
             res |-> Outcome("error", exc, msg, r, branch, 0, "none", parsed, table,
                             r.file_name)]
        done(content) ==
            [fs |-> [fsv EXCEPT ![OutputFile(branch)] = content],
             res |-> Outcome("ok", "", "", r, branch, 0, "file", TRUE, df, r.file_name)]
        total_data == [i \in 1..Len(df.rows) |-> RowData(df.cols, df.rows[i])]
        w == WriteLines(total_data, TRUE)
    IN  IF input_file.kind = "none" \/ r.file_extension # Str(RequiredExtension(branch))
        THEN fail("ValueError", InvalidInputMessage(branch), FALSE, NoDf, fsv)
        ELSE IF ~p.ok THEN fail("ParserError", "", TRUE, NoDf, fsv)
        ELSE IF branch = "CSV to Parquet" THEN done(to_parquet(df))
        ELSE IF branch = "Parquet to CSV" THEN done(to_csv(df))
        ELSE IF \E i \in 1..Len(df.rows) : ~Serializable(Record(df.cols, df.rows[i]))
        THEN fail("TypeError", "", TRUE, df, fsv)
        ELSE IF ~w.ok
        THEN fail("TypeError", "", TRUE, df, [fsv EXCEPT ![OutputFile(branch)] = w.file])
        ELSE done(w.file)

\* The two branches that take an upload or a URL, lines 110-161.
SourceBranch(fsv, input_file, parquet_url, net, r, branch) ==
    LET source == ChooseSource(input_file, parquet_url)
        gets == IF source = "url" THEN 1 ELSE 0
        file_name == IF source = "url" THEN NameAfterFetch(r.file_name) ELSE r.file_name
        p == IF source = "file" THEN read_parquet(r.file_bytes)
             ELSE read_parquet(net.content)
        df == p.df
        fail(exc, msg, parsed, table, fsOut) ==
            [fs |-> fsOut,
             res |-> Outcome("error", exc, msg, r, branch, gets, source, parsed, table,
                             IF parsed /\ p.ok THEN file_name ELSE r.file_name)]
        done(content) ==
            [fs |-> [fsv EXCEPT ![OutputFile(branch)] = content],
             res |-> Outcome("ok", "", "", r, branch, gets, source, TRUE, df, file_name)]
        records == to_records(df)
        w == WriteLines([i \in 1..Len(records) |-> recursive_sanitize(records[i])], FALSE)
        sheet == [i \in 1..Len(df.rows) |->
                    [j \in 1..Len(df.rows[i]) |-> sanitize_value(df.rows[i][j])]]
    IN  IF source = "none"
        THEN fail("ValueError", InvalidInputMessage(branch), FALSE, NoDf, fsv)
        ELSE IF source = "url" /\ net.outcome = "refused"
        THEN fail("ConnectionError", "", FALSE, NoDf, fsv)
        ELSE IF source = "url" /\ net.code >= 400
        THEN fail("HTTPError", "", FALSE, NoDf, fsv)
        ELSE IF ~p.ok THEN fail("ParserError", "", TRUE, NoDf, fsv)
        ELSE IF branch = "Parquet to JSONL"
        THEN IF w.ok THEN done(w.file)
             ELSE fail("TypeError", "", TRUE, df,
                       [fsv EXCEPT ![OutputFile(branch)] = w.file])
        ELSE IF \E i \in 1..Len(sheet) : \E j \in 1..Len(sheet[i]) :
                    ~ExcelWritable(sheet[i][j])
        THEN fail("ValueError", "Cannot convert to Excel", TRUE, df, fsv)
        ELSE done([fmt |-> "xlsx", header |-> df.cols, rows |-> sheet])

dataset_converter(fsv, input_file, conversion_type, parquet_url, net) ==
    LET r == Resolve(input_file)
        branch == Dispatch(conversion_type)
    IN  IF ~r.ok
        THEN [fs |-> fsv,
              res |-> Outcome("error", "FileNotFoundError", "", r, "none", 0, "none",
                              FALSE, NoDf, r.file_name)]
        ELSE IF branch \in {"CSV to Parquet", "Parquet to CSV", "CSV to JSONL"}
        THEN UploadBranch(fsv, input_file, r, branch)
        ELSE IF branch \in {"Parquet to JSONL", "Parquet to XLS"}
        THEN SourceBranch(fsv, input_file, parquet_url, net, r, branch)
        ELSE [fs |-> fsv,
              res |-> Outcome("error", "ValueError", InvalidInputMessage(branch), r,
                              "else", 0, "none", FALSE, NoDf, r.file_name)]

(***************************************************************************)
(* The converter as a state machine: one action per button click           *)
(***************************************************************************)
NoRequest ==
    [input_file |-> NoFile, conversion_type |-> "", parquet_url |-> "", net |-> NoAnswer]

Idle == [status |-> "none"]

\* The network answers exactly when the call issues a GET.
AnswersFor(input_file, conversion_type, parquet_url) ==
    IF /\ Resolve(input_file).ok
       /\ Dispatch(conversion_type) \in {"Parquet to JSONL", "Parquet to XLS"}
       /\ ChooseSource(input_file, parquet_url) = "url"
    THEN NetAnswers ELSE {NoAnswer}

Init ==
    /\ fs = [n \in OutputNames |-> Absent]
    /\ prev = fs
    /\ nreq = 0
    /\ req = NoRequest
    /\ res = Idle
    /\ val = None /\ out1 = None /\ out2 = None /\ phase = "off"

Convert(input_file, conversion_type, parquet_url, net) ==
    /\ phase = "off"
    /\ nreq < MaxRequests
    /\ LET o == dataset_converter(fs, input_file, conversion_type, parquet_url, net)
       IN  /\ fs' = o.fs
           /\ res' = o.res
    /\ prev' = fs
    /\ req' = [input_file |-> input_file, conversion_type |-> conversion_type,
               parquet_url |-> parquet_url, net |-> net]
    /\ nreq' = nreq + 1
    /\ UNCHANGED <<val, out1, out2, phase>>

Next ==
    /\ nreq < MaxRequests
    /\ \E input_file \in InputFiles, conversion_type \in ConversionTypes,
       parquet_url \in Urls :
         \E net \in AnswersFor(input_file, conversion_type, parquet_url) :
             Convert(input_file, conversion_type, parquet_url, net)

Spec == Init /\ [][Next]_vars

(***************************************************************************)
(* sanitize_value applied once and twice to one value                      *)
(***************************************************************************)
TextAlphabet == {0, 8, 9, 10, 11, 12, 13, 14, 31, 32, 65, 233}
ByteAlphabet == {0, 9, 11, 31, 65, 195, 169, 226, 130, 172}

SeqsUpTo(S, n) == UNION {[1..k -> S] : k \in 0..n}

Items ==
    {Str(<<11>>), Str(<<65, 9>>), Str(<<39, 27>>), Bytes(<<1, 200>>), Int(12), None,
     Bool(TRUE), List(<<Str(<<0>>)>>)}

SanitizerInputs ==
    {Str(s) : s \in SeqsUpTo(TextAlphabet, MaxLen)}
    \cup {Bytes(b) : b \in SeqsUpTo(ByteAlphabet, MaxLen)}
    \cup {List(l) : l \in SeqsUpTo(Items, 2)}
    \cup {Dict(k, v) : k \in {Str(<<107>>), Int(3)}, v \in Items}
    \cup {Int(0), Int(405), Bool(FALSE), Bool(TRUE), None, NpInt(7),
          NdArray(<<Int(1)>>)}

SanInit ==
    /\ fs = [n \in OutputNames |-> Absent]
    /\ prev = fs
    /\ nreq = 0
    /\ req = NoRequest
    /\ res = Idle
    /\ val \in SanitizerInputs
    /\ out1 = None /\ out2 = None /\ phase = "in"

Sanitize ==
    /\ phase = "in"
    /\ out1' = sanitize_value(val)
    /\ phase' = "once"
    /\ UNCHANGED <<fs, prev, nreq, req, res, val, out2>>

SanitizeAgain ==
    /\ phase = "once"
    /\ out2' = sanitize_value(out1)
    /\ phase' = "twice"
    /\ UNCHANGED <<fs, prev, nreq, req, res, val, out1>>

SanNext == Sanitize \/ SanitizeAgain

SanSpec == SanInit /\ [][SanNext]_vars

(***************************************************************************)
(* Properties                                                              *)
(***************************************************************************)
Handled == res.status # "none"
Supplied == req.input_file.kind # "none"
\* The resolver returned: the supplied object or path could be read.
Resolved == req.input_file.kind # "path" \/ req.input_file.readable

ClaimedExtension ==
    ("CSV to Parquet" :> CSV) @@ ("CSV to JSONL" :> CSV) @@ ("Parquet to CSV" :> PARQUET)

ClaimedOutput ==
    ("CSV to Parquet" :> "output.parquet") @@ ("Parquet to CSV" :> "output.csv")
    @@ ("CSV to JSONL" :> "metadata.jsonl") @@ ("Parquet to JSONL" :> "output.jsonl")
    @@ ("Parquet to XLS" :> "output.xlsx")

UploadMessages ==
    {"For CSV to Parquet conversion, please upload a CSV file.",
     "For Parquet to CSV conversion, please upload a Parquet file.",
     "For CSV to JSONL conversion, please upload a CSV file."}

UploadOrUrlMessages ==
    {"For Parquet to JSONL conversion, please upload a file or provide a URL.",
     "For Parquet to XLS conversion, please upload a file or provide a URL."}

\* C1: in the three extension-checked conversions, a request with no file or
\* with a file whose lower-cased extension is not the required one ends in
\* the ValueError carrying the upload message, with no parser run and the
\* directory untouched; a file with exactly the required extension passes
\* the check and is handed to the parser.
C1_ExtensionPrecondition ==
    (Handled /\ Resolved /\ req.conversion_type \in DOMAIN ClaimedExtension) =>
        IF Supplied /\ res.file_extension = Str(ClaimedExtension[req.conversion_type])
        THEN res.parsed /\ res.msg \notin UploadMessages
        ELSE /\ res.status = "error" /\ res.exc = "ValueError"
             /\ res.msg \in UploadMessages
             /\ ~res.parsed
             /\ fs = prev

\* C1 witness: an upload named b.parquet is refused by "CSV to Parquet".
C1_Witness ==
    /\ Handled /\ req.conversion_type = "CSV to Parquet"
    /\ req.input_file.kind = "obj" /\ req.input_file.name = <<98, 46>> \o PARQUET
    /\ req.input_file.bytes.fmt = "csv"
    /\ res.exc = "ValueError" /\ ~res.parsed

\* C2: in "Parquet to JSONL" and "Parquet to XLS" a supplied file is the
\* source whatever parquet_url holds, and no GET is issued; with no file and
\* a non-empty URL exactly one GET is issued and the table is read from the
\* response body; with neither, the call ends in the ValueError naming both
\* options, with no GET and the directory untouched.
C2_FileTakesPrecedence ==
    (Handled /\ Resolved /\ req.conversion_type \in {"Parquet to JSONL", "Parquet to XLS"}) =>
        IF Supplied
        THEN /\ res.gets = 0 /\ res.source = "file" /\ res.parsed
             /\ (req.input_file.bytes.fmt = "parquet" => res.df = req.input_file.bytes.table)
             /\ (req.input_file.bytes.fmt # "parquet" => res.exc = "ParserError")
        ELSE IF req.parquet_url # ""
        THEN /\ res.gets = 1 /\ res.source = "url"
             /\ (req.net.outcome = "status" /\ req.net.code = 200 =>
                    /\ res.parsed
                    /\ (req.net.content.fmt = "parquet" => res.df = req.net.content.table))
        ELSE /\ res.status = "error" /\ res.exc = "ValueError"
             /\ res.msg \in UploadOrUrlMessages
             /\ res.gets = 0 /\ ~res.parsed
             /\ fs = prev

\* C2 witness: a converted upload in a request that also carried a URL.
C2_Witness ==
    /\ Handled /\ req.conversion_type = "Parquet to XLS" /\ Supplied
    /\ req.parquet_url # "" /\ res.status = "ok" /\ res.gets = 0

\* C3: a request with an unrecognized conversion type always ends in
\* ValueError("Invalid conversion type selected."), whatever input_file
\* (absent, file-like object or path string) and parquet_url are, and writes
\* nothing.
C3_InvalidTypeAlwaysInvalidInput ==
    (Handled /\ req.conversion_type \notin ConversionLabels) =>
        /\ res.status = "error" /\ res.exc = "ValueError"
        /\ res.msg = "Invalid conversion type selected."
        /\ fs = prev

\* C4: a request that ends in an error leaves every output file, its own
\* included, with the content it had before the request.
C4_NoPartialOutput ==
    (Handled /\ res.status = "error") => fs = prev

\* C5: a request changes no output file but the one of its conversion type,
\* and after a successful request that file holds exactly what the request
\* produces in an empty directory: the old content is replaced, not kept.
C5_OwnOutputOnly ==
    Handled =>
        /\ \A n \in OutputNames :
              (req.conversion_type \notin DOMAIN ClaimedOutput
               \/ n # ClaimedOutput[req.conversion_type]) => fs[n] = prev[n]
        /\ res.status = "ok" =>
              /\ res.output_file = ClaimedOutput[req.conversion_type]
              /\ fs[res.output_file] # Absent
              /\ fs[res.output_file] =
                    dataset_converter([n \in OutputNames |-> Absent], req.input_file,
                                      req.conversion_type, req.parquet_url,
                                      req.net).fs[res.output_file]

\* C5 witness: a successful request found older, different content in its
\* output file.
C5_Witness ==
    /\ Handled /\ res.status = "ok"
    /\ prev[res.output_file] # Absent
    /\ prev[res.output_file] # fs[res.output_file]

\* C6: the branch that runs is the one named by conversion_type, whatever
\* the file's bytes, its name and parquet_url are, and a result comes from
\* that branch.
C6_RoutineByTypeAlone ==
    (Handled /\ Resolved) =>
        /\ res.branch = IF req.conversion_type \in ConversionLabels
                        THEN req.conversion_type ELSE "else"
        /\ res.status = "ok" =>
              /\ res.output_file = ClaimedOutput[req.conversion_type]
              /\ res.converted_format = ConvertedFormat(req.conversion_type)

\* C6 witness: "Parquet to CSV" is entered for an upload whose name and
\* bytes are both CSV.
C6_Witness ==
    /\ Handled /\ req.conversion_type = "Parquet to CSV"
    /\ Supplied /\ req.input_file.bytes.fmt = "csv"
    /\ req.input_file.name = <<65, 46, 67, 83, 86>>
    /\ res.branch = "Parquet to CSV"

Illegal == (0..8) \cup {11, 12} \cup (14..31)
Legal(c) == c \notin Illegal

\* The decoded / textual form sanitize_value strips.
TextualForm(v) ==
    CASE v.t = "bytes" -> decode_utf8_replace(v.b)
      [] v.t = "str" -> v.s
      [] v.t \in {"list", "dict"} -> PyStr(v)

\* C7: a string returned by sanitize_value holds no character of
\* 0x00-0x08, 0x0B, 0x0C, 0x0E-0x1F, and is the decoded / textual form of the
\* input with exactly those characters left out.
C7_NoIllegalCharacters ==
    (phase # "in" /\ out1.t = "str") =>
        /\ \A i \in 1..Len(out1.s) : out1.s[i] \notin Illegal
        /\ out1.s = SelectSeq(TextualForm(val), Legal)

\* C7 witness: bytes holding a vertical tab, a tab and a bad byte come out
\* as the tab and U+FFFD.
C7_Witness ==
    /\ phase = "once" /\ val = Bytes(<<11, 9, 195>>)
    /\ out1 = Str(<<9, REPLACEMENT>>)

\* C8: sanitize_value applied to its own result returns that result.
C8_Idempotent ==
    phase = "twice" => out2 = out1

\* C8 witness: a two-item list became text on the first application and
\* stayed that text on the second.
C8_Witness ==
    /\ phase = "twice" /\ val.t = "list" /\ Len(val.items) = 2
    /\ out1.t = "str" /\ out2 = out1

\* The extension as the claim has it: the lower-cased text after the last
\* '.', empty when the name holds no '.'.
ClaimedFileExtension(name) ==
    IF Contains(name, 46) THEN LastDotField(Lower(name)) ELSE <<>>

\* C9: the extension of a supplied file is the lower-cased text after the
\* last '.' of its name and is empty for a name without '.', and a request
\* with such a name is refused whatever the conversion type.
C9_NoDotMeansEmptyExtension ==
    (Handled /\ Supplied /\ Resolved) =>
        /\ res.file_extension = Str(ClaimedFileExtension(req.input_file.name))
        /\ ~Contains(req.input_file.name, 46) =>
              res.status = "error" /\ res.exc = "ValueError"

\* C10: the summary of a result names the supplied file, or
\* "from_url.parquet" exactly when no file was supplied and the table was
\* fetched; it never reads "N/A".
C10_InputFileLine ==
    (Handled /\ res.status = "ok") =>
        /\ res.info_name # NotAvailable
        /\ IF Supplied
           THEN res.info_name = req.input_file.name /\ res.source = "file"
           ELSE res.info_name = FromUrlName /\ res.source = "url" /\ res.gets = 1

\* C10 witness: a result for a table fetched from the URL.
C10_Witness ==
    /\ Handled /\ res.status = "ok" /\ ~Supplied
    /\ res.info_name = FromUrlName /\ req.conversion_type = "Parquet to JSONL"

====
